---- MODULE Spec2Model ----
(***************************************************************************)
(* State-machine model of main.cpp: the VideoProcessor / FaceDetector      *)
(* classes and the entry loop of main().  The external vision library is   *)
(* the environment: whether the camera, the cascade file and the video     *)
(* writer open, whether a read yields a frame, what the detector returns,  *)
(* what the wall clock reads and which key is pressed are inputs.          *)
(***************************************************************************)
EXTENDS Integers, Sequences, FiniteSets, TLC

\* ---------------------------------------------------------------- bounds
MaxFactor == 3      \* speed-up factors 1..MaxFactor are explored
MaxFaces  == 3      \* the detector returns at most MaxFaces rectangles
MaxFrames == 3      \* at most MaxFrames successful captures per run
MaxTime   == 1      \* the wall clock reads 0..MaxTime seconds

\* ------------------------------------------------------ program constants
FocalLength   == 800
RealFaceWidth == 14

\* Rectangles the detector may report (x, y, width, height; the minimum
\* detectable size is 30x30): the i-th face of a scene, nearer or farther.
FaceRect(scene, i) ==
    IF scene = "near"
    THEN [x |-> 40 * i, y |-> 20, width |-> 100 * i, height |-> 100 * i]
    ELSE [x |-> 40 * i, y |-> 30, width |-> 30 * i, height |-> 30 * i]

Min(a, b) == IF a < b THEN a ELSE b

\* ------------------------------------------------------------ pure helpers
Digit(d) ==
    CASE d = 0 -> "0" [] d = 1 -> "1" [] d = 2 -> "2" [] d = 3 -> "3"
      [] d = 4 -> "4" [] d = 5 -> "5" [] d = 6 -> "6" [] d = 7 -> "7"
      [] d = 8 -> "8" [] d = 9 -> "9"

\* std::to_string of a non-negative integer
RECURSIVE to_string(_)
to_string(n) == IF n < 10 THEN Digit(n) ELSE to_string(n \div 10) \o Digit(n % 10)

\* estimateDistance(faceWidthInPixels): (realFaceWidth * focalLength) /
\* faceWidthInPixels, kept as the exact quotient num / den (den > 0: the
\* detector reports no rectangle narrower than 30 pixels).
estimateDistance(faceWidthInPixels) ==
    [num |-> RealFaceWidth * FocalLength, den |-> faceWidthInPixels]

\* 2^k mod 25
RECURSIVE Pow2Mod25(_)
Pow2Mod25(k) == IF k = 0 THEN 1 ELSE (2 * Pow2Mod25(k - 1)) % 25

\* The binary exponent e of c / 25 (c > 0): 2^e <= c / 25 < 2^(e + 1)
RECURSIVE ExpUp(_, _)
ExpUp(c, e) == IF 25 * 2^(e + 1) <= c THEN ExpUp(c, e + 1) ELSE e
RECURSIVE ExpDown(_, _)
ExpDown(c, j) == IF c * 2^j >= 25 THEN j ELSE ExpDown(c, j + 1)
BinaryExponent(c) == IF c >= 25 THEN ExpUp(c, 0) ELSE 0 - ExpDown(c, 1)

\* The double nearest to c / 200 (c odd: a decimal tie between two
\* hundredths) compared with c / 200 itself: 1 above, -1 below, 0 equal.
\* c / 200 is c / 25 scaled by a power of two, and the 53-bit significand
\* of c / 25 is floor(c * 2^k / 25) with k = 52 - e, rounded up when the
\* remainder (c * 2^k) mod 25 is more than half of 25.
DoubleVersusTie(c) ==
    LET k   == 52 - BinaryExponent(c)
        rem == ((c % 25) * Pow2Mod25(k)) % 25
    IN  IF rem = 0 THEN 0 ELSE IF 2 * rem > 25 THEN 1 ELSE -1

\* ss << fixed << setprecision(2) << distance: the double nearest to the
\* quotient, printed rounded to hundredths.  Off a decimal tie the double
\* rounds as the quotient does (its error is below 2^-53 of the value, the
\* quotient is at least 1/(200 den) away from a tie).  On a tie the double
\* is the tie itself when that is a binary fraction, and then the even
\* digit is taken; otherwise the double lies just above or below it and
\* the print follows the double.
FormatFixed2(distance) ==
    LET scaled == distance.num * 100
        q      == scaled \div distance.den
        r      == scaled % distance.den
        side   == IF 2 * r = distance.den THEN DoubleVersusTie(2 * q + 1) ELSE 0
        up     == \/ 2 * r > distance.den
                  \/ (2 * r = distance.den /\ side = 1)
                  \/ (2 * r = distance.den /\ side = 0 /\ q % 2 = 1)
        h      == IF up THEN q + 1 ELSE q
        frac   == h % 100
    IN  to_string(h \div 100) \o "." \o Digit(frac \div 10) \o Digit(frac % 10)

\* "Face <i+1> Dist: <d> cm" for the 0-based slot i
labelText(i, rect) ==
    "Face " \o to_string(i + 1) \o " Dist: "
        \o FormatFixed2(estimateDistance(rect.width)) \o " cm"

\* to_string(faces.size()) + " face" + (faces.size() > 1 ? "s" : "") + " found"
faceMessage(n) ==
    to_string(n) \o " face" \o (IF n > 1 THEN "s" ELSE "") \o " found"

\* frameCounter % (frameSkipCount + 1) != 0 (and, before it, the same test
\* with the skip never taken)
SkipNever(counter, skip) == FALSE
SkipFrame(counter, skip) == counter % (skip + 1) # 0

\* facesSaved.resize(n, false): keeps the first Min(Len, n) flags, pads with false
ResizeReset(v, n) == [i \in 1..n |-> FALSE]
ResizeGrowOnly(v, n) ==
    IF n > Len(v) THEN [i \in 1..n |-> IF i <= Len(v) THEN v[i] ELSE FALSE] ELSE v
Resize(v, n) == [i \in 1..n |-> IF i <= Len(v) THEN v[i] ELSE FALSE]

\* "faces/face_<now>.jpg" (count = 0) or "faces/face_<now>_<count>.jpg"
FaceFile(now, count) ==
    IF count = 0
    THEN "faces/face_" \o to_string(now) \o ".jpg"
    ELSE "faces/face_" \o to_string(now) \o "_" \o to_string(count) \o ".jpg"

\* what() of the exception thrown at each fatal condition; "" is no error
NoError      == ""
CameraError  == "Error: Could not open the camera."
CascadeError == "Error: Could not load face cascade."
WriterError  == "Error: Could not open the video writer."
ReadError    == "Error: Could not read a frame from the camera."
DirectoryError == "filesystem error: cannot create directory: File exists [faces]"

\* The file system is [dirs, files]: the paths that are directories and the
\* paths that are regular files.  filesystem::exists(p):
Exists(fs, p) == p \in fs.dirs \cup fs.files

\* filesystem::create_directory(p): nothing to do when p is a directory,
\* filesystem_error when p exists and is not one, else the directory is made.
CreateDirectory(fs, p) ==
    IF p \in fs.dirs THEN [error |-> NoError, fs |-> fs]
    ELSE IF p \in fs.files THEN [error |-> DirectoryError, fs |-> fs]
    ELSE [error |-> NoError, fs |-> [fs EXCEPT !.dirs = @ \cup {p}]]

\* imwrite(filename, image) when the encoder and the disk let the write
\* succeed (ok) or not: the value returned and the file system left behind.
\* A failed write returns false and leaves no file.
imwrite(fs, filename, ok) ==
    [result |-> ok,
     fs     |-> IF ok THEN [fs EXCEPT !.files = @ \cup {filename}] ELSE fs]

RECURSIVE UniqueLoop(_, _, _, _)
UniqueLoop(fs, now, newFilename, count) ==
    IF Exists(fs, newFilename)
    THEN UniqueLoop(fs, now, FaceFile(now, count), count + 1)
    ELSE newFilename

\* getUniqueFilename() with the file system fs and the clock reading now:
\* the exception create_directory threw, or the path returned, and the file
\* system left behind.
getUniqueFilename(fs, now) ==
    LET made == CreateDirectory(fs, "faces")
    IN  IF made.error # NoError
        THEN [error |-> made.error, path |-> "", fs |-> made.fs]
        ELSE [error |-> NoError,
              path  |-> UniqueLoop(made.fs, now, FaceFile(now, 0), 1),
              fs    |-> made.fs]

\* if (!facesSaved[i]) of annotateFrame
SaveAlways(saved, i) == TRUE
NeedsSave(saved, i) == ~saved[i]

\* videoWriter.open("faces/output_video.avi", ...): the file is opened for
\* writing, which needs the directory faces to be there (nothing has made
\* it yet) and the encoder to be available (ok); the file exists afterwards.
VideoFile == "faces/output_video.avi"
OpenWriter(fs, ok) ==
    LET opened == ok /\ "faces" \in fs.dirs
    IN  [opened |-> opened,
         fs     |-> IF opened THEN [fs EXCEPT !.files = @ \cup {VideoFile}] ELSE fs]

\* The FaceDetector constructor (after the VideoProcessor base constructor):
\* which resources it opened, what it threw and the file system it leaves.
\* baseBuilt says the base sub-object was complete when the exception left,
\* so ~VideoProcessor runs.
ConstructorWriterFirst(camOK, cascOK, wrOK, fs) ==
    LET w == OpenWriter(fs, wrOK)
    IN  IF ~camOK
        THEN [error |-> CameraError, videoOpened |-> FALSE, cascadeLoaded |-> FALSE,
              writerOpened |-> FALSE, baseBuilt |-> FALSE, fs |-> fs]
        ELSE IF ~w.opened
        THEN [error |-> WriterError, videoOpened |-> TRUE, cascadeLoaded |-> FALSE,
              writerOpened |-> FALSE, baseBuilt |-> TRUE, fs |-> w.fs]
        ELSE IF ~cascOK
        THEN [error |-> CascadeError, videoOpened |-> TRUE, cascadeLoaded |-> FALSE,
              writerOpened |-> TRUE, baseBuilt |-> TRUE, fs |-> w.fs]
        ELSE [error |-> NoError, videoOpened |-> TRUE, cascadeLoaded |-> TRUE,
              writerOpened |-> TRUE, baseBuilt |-> TRUE, fs |-> w.fs]
Constructor(camOK, cascOK, wrOK, fs) ==
    LET w == OpenWriter(fs, wrOK)
    IN  IF ~camOK
        THEN [error |-> CameraError, videoOpened |-> FALSE, cascadeLoaded |-> FALSE,
              writerOpened |-> FALSE, baseBuilt |-> FALSE, fs |-> fs]
        ELSE IF ~cascOK
        THEN [error |-> CascadeError, videoOpened |-> TRUE, cascadeLoaded |-> FALSE,
              writerOpened |-> FALSE, baseBuilt |-> TRUE, fs |-> fs]
        ELSE IF ~w.opened
        THEN [error |-> WriterError, videoOpened |-> TRUE, cascadeLoaded |-> TRUE,
              writerOpened |-> FALSE, baseBuilt |-> TRUE, fs |-> w.fs]
        ELSE [error |-> NoError, videoOpened |-> TRUE, cascadeLoaded |-> TRUE,
              writerOpened |-> TRUE, baseBuilt |-> TRUE, fs |-> w.fs]

\* ~VideoProcessor: video.release(); destroyAllWindows(); the members
\* (VideoWriter among them) are destroyed with the object.
DestructorKeepsWindows(res) ==
    [videoOpened |-> FALSE, writerOpened |-> FALSE, windows |-> res.windows]
Destructor(res) ==
    [videoOpened |-> FALSE, writerOpened |-> FALSE, windows |-> {}]

\* Where control goes when processFrame's read returned: an empty frame
\* throws out of the loop of main, anything else goes on to displayFrame.
RetryOnEmpty(empty) == IF empty THEN "process" ELSE "display"
AfterRead(empty) == IF empty THEN "unwind" ELSE "display"

\* The positions at which annotateFrame reads the clock and writes an image
SavingPositions(saved) == {i \in DOMAIN saved : NeedsSave(saved, i)}

\* The frame as read from the camera, before any drawing
RawFrame == [empty |-> FALSE, boxes |-> <<>>, texts |-> <<>>]
EmptyFrame == [empty |-> TRUE, boxes |-> <<>>, texts |-> <<>>]

\* The for loop of annotateFrame from position i (1-based; slot i-1 of the
\* code) on.  st carries the frame, the file system, the saved flags, the
\* clock, the record of the getUniqueFilename/imwrite calls made and the
\* exception thrown, if any: a throw of getUniqueFilename leaves the loop
\* with the slot's box drawn, its flag clear, no image and no label.
\* The value imwrite returns is discarded: the flag is set and the label
\* drawn whether or not the image was written.
\* tickAt is the position whose clock reading is the first to show the next
\* second (0: every reading of this call shows the same second as the last
\* one); failing is the set of positions whose imwrite fails.
RECURSIVE AnnotateLoop(_, _, _, _, _)
AnnotateLoop(i, fcs, tickAt, failing, st) ==
    IF i > Len(fcs) THEN st
    ELSE
      LET rect  == fcs[i]
          t     == IF tickAt = i THEN Min(st.now + 1, MaxTime) ELSE st.now
          save  == NeedsSave(st.saved, i)
          got   == getUniqueFilename(st.fs, t)
          wrote == imwrite(got.fs, got.path, i \notin failing)
          boxed == [st.frame EXCEPT !.boxes = Append(@, rect)]
          call  == [slot |-> i - 1, t |-> t, path |-> got.path,
                    existed |-> Exists(got.fs, got.path),
                    repeated |-> got.path \in st.returned,
                    written |-> wrote.result]
          label == [text |-> labelText(i - 1, rect), x |-> rect.x, y |-> rect.y]
          next  == [frame    |-> [boxed EXCEPT !.texts = Append(@, label)],
                    fs       |-> IF save THEN wrote.fs ELSE st.fs,
                    saved    |-> IF save THEN [st.saved EXCEPT ![i] = TRUE] ELSE st.saved,
                    now      |-> t,
                    calls    |-> IF save THEN Append(st.calls, call) ELSE st.calls,
                    returned |-> IF save THEN st.returned \cup {got.path}
                                 ELSE st.returned,
                    error    |-> NoError]
      IN  IF save /\ got.error # NoError
          THEN [st EXCEPT !.frame = boxed, !.fs = got.fs, !.error = got.error]
          ELSE AnnotateLoop(i + 1, fcs, tickAt, failing, next)

\* annotateFrame(): the loop, then the summary line at (10, 40)
annotateFrame(fcs, tickAt, failing, st) ==
    LET done == AnnotateLoop(1, fcs, tickAt, failing, st)
    IN  IF done.error # NoError THEN done
        ELSE [done EXCEPT !.frame.texts =
                Append(@, [text |-> faceMessage(Len(fcs)), x |-> 10, y |-> 40])]

\* ---------------------------------------------------------------- inputs
\* What detectMultiScale may return: the first n faces of a scene
Scenes == {"near", "far"}
Detections ==
    {[i \in 1..n |-> FaceRect(scene, i)] : scene \in Scenes, n \in 0..MaxFaces}

\* Keys waitKey(20) may report ("none": the poll timed out)
Keys == {"q", "x", "none"}

\* The file system before the run: nothing, an empty faces/, faces/ with
\* the files left by an earlier run, or a regular file in the place of faces
InitialFileSystems ==
    { [dirs |-> {}, files |-> {}],
      [dirs |-> {"faces"}, files |-> {}],
      [dirs |-> {"faces"}, files |-> {FaceFile(0, 0), FaceFile(0, 1), VideoFile}],
      [dirs |-> {}, files |-> {"faces"}] }

\* ----------------------------------------------------------------- state
VARIABLES
    pc,             \* position of main: start, process, display, waitkey,
                    \*   unwind, catch, return, exit
    cameraOK, cascadeOK, writerOK,   \* environment: camera there, cascade file
                    \*   valid, video encoder available
    speedUpFactor,  \* the constructor's speedUpFactor argument
    videoOpened, cascadeLoaded, writerOpened, windows,   \* resources held
    frame, faces, facesSaved, frameSkipCount, frameCounter,  \* object fields
    fs, now,        \* file system (dirs, files), last wall-clock reading
    videoFrames,    \* number of frames written to the video sink
    error, cerr, exitCode,   \* exception in flight or caught, stderr, status
    \* history of the run, read by the properties only
    constructed, sinkEverOpened, reads, captures, detections, annotations,
    lastCycle, prevCount, prevSaved, calls, returned, initialFs,
    caught, quit

vars == << pc, cameraOK, cascadeOK, writerOK, speedUpFactor,
           videoOpened, cascadeLoaded, writerOpened, windows,
           frame, faces, facesSaved, frameSkipCount, frameCounter,
           fs, now, videoFrames, error, cerr, exitCode,
           constructed, sinkEverOpened, reads, captures, detections, annotations,
           lastCycle, prevCount, prevSaved, calls, returned, initialFs,
           caught, quit >>

env      == << cameraOK, cascadeOK, writerOK, speedUpFactor, initialFs >>
fields   == << frame, faces, facesSaved, frameCounter >>
disk     == << fs, now, videoFrames >>
cycleLog == << lastCycle, prevCount, prevSaved, calls, returned >>
counters == << reads, captures, detections, annotations >>

Init ==
    /\ pc = "start"
    /\ cameraOK \in BOOLEAN /\ cascadeOK \in BOOLEAN /\ writerOK \in BOOLEAN
    /\ speedUpFactor \in 1..MaxFactor
    /\ videoOpened = FALSE /\ cascadeLoaded = FALSE /\ writerOpened = FALSE
    /\ windows = {}
    /\ frame = EmptyFrame /\ faces = <<>> /\ facesSaved = <<>>
    /\ frameSkipCount = 0 /\ frameCounter = 0
    /\ fs \in InitialFileSystems /\ initialFs = fs
    /\ now = 0 /\ videoFrames = 0
    /\ error = NoError /\ cerr = <<>> /\ exitCode = 0
    /\ constructed = FALSE /\ sinkEverOpened = FALSE
    /\ reads = 0 /\ captures = 0 /\ detections = 0 /\ annotations = 0
    /\ lastCycle = "none" /\ prevCount = 0 /\ prevSaved = <<>>
    /\ calls = <<>> /\ returned = {}
    /\ caught = 0 /\ quit = FALSE

\* FaceDetector faceDetector(...) in main
Construct ==
    /\ pc = "start"
    /\ LET c == Constructor(cameraOK, cascadeOK, writerOK, fs)
       IN  /\ videoOpened' = c.videoOpened
           /\ fs' = c.fs
           /\ cascadeLoaded' = c.cascadeLoaded
           /\ writerOpened' = c.writerOpened
           /\ sinkEverOpened' = c.writerOpened
           /\ error' = c.error
           /\ cerr' = IF c.error = NoError THEN cerr ELSE Append(cerr, c.error)
           /\ constructed' = (c.error = NoError)
           /\ frameSkipCount' = IF c.videoOpened THEN speedUpFactor - 1 ELSE frameSkipCount
           /\ pc' = IF c.error = NoError THEN "process"
                    ELSE IF c.baseBuilt THEN "unwind" ELSE "catch"
    /\ UNCHANGED << env, windows, fields, now, videoFrames, exitCode, counters,
                    cycleLog, caught, quit >>

\* faceDetector.processFrame(): the read fails, or the frame is dropped, or
\* it is detected on, annotated and written; an exception out of
\* annotateFrame leaves the call before videoWriter.write.
ProcessFrame ==
    /\ pc = "process"
    /\ captures < MaxFrames
    /\ reads' = reads + 1
    /\ \E empty \in BOOLEAN :
         IF empty
         THEN /\ pc' = AfterRead(empty)
              /\ frame' = EmptyFrame
              /\ error' = ReadError
              /\ cerr' = Append(cerr, ReadError)
              /\ lastCycle' = "failed"
              /\ UNCHANGED << faces, facesSaved, frameCounter, disk, captures,
                              detections, annotations, prevCount, prevSaved,
                              calls, returned >>
         ELSE /\ captures' = captures + 1
              /\ cerr' = cerr
              /\ IF SkipFrame(frameCounter + 1, frameSkipCount)
                 THEN /\ pc' = AfterRead(empty)
                      /\ frame' = RawFrame
                      /\ frameCounter' = frameCounter + 1
                      /\ lastCycle' = "dropped"
                      /\ calls' = <<>>
                      /\ UNCHANGED << error, faces, facesSaved, disk, detections,
                                      annotations, prevCount, prevSaved, returned >>
                 ELSE \E det \in Detections :
                      \E resized \in {IF Len(facesSaved) # Len(det)
                                       THEN Resize(facesSaved, Len(det))
                                       ELSE facesSaved} :
                      \E tickAt \in {0} \cup SavingPositions(resized) :
                      \E failing \in SUBSET SavingPositions(resized) :
                      \E st \in {annotateFrame(det, tickAt, failing,
                                    [frame |-> RawFrame, fs |-> fs,
                                     saved |-> resized, now |-> now,
                                     calls |-> <<>>, returned |-> returned,
                                     error |-> NoError])} :
                      LET thrown == st.error # NoError
                      IN  /\ frameCounter' = 0
                          /\ faces' = det
                          /\ detections' = detections + 1
                          /\ annotations' = annotations + 1
                          /\ prevCount' = Len(faces)
                          /\ prevSaved' = facesSaved
                          /\ facesSaved' = st.saved
                          /\ frame' = st.frame
                          /\ fs' = st.fs
                          /\ now' = st.now
                          /\ calls' = st.calls
                          /\ returned' = st.returned
                          /\ error' = st.error
                          /\ videoFrames' = IF thrown THEN videoFrames
                                            ELSE videoFrames + 1
                          /\ lastCycle' = IF thrown THEN "failed" ELSE "processed"
                          /\ pc' = IF thrown THEN "unwind" ELSE AfterRead(empty)
    /\ UNCHANGED << env, videoOpened, cascadeLoaded, writerOpened, windows,
                    frameSkipCount, exitCode, constructed, sinkEverOpened,
                    caught, quit >>

\* faceDetector.displayFrame("Face Detection")
DisplayFrame ==
    /\ pc = "display"
    /\ windows' = windows \cup {"Face Detection"}
    /\ pc' = "waitkey"
    /\ UNCHANGED << env, videoOpened, cascadeLoaded, writerOpened, fields,
                    frameSkipCount, disk, error, cerr, exitCode, constructed,
                    sinkEverOpened, counters, cycleLog, caught, quit >>

\* if (waitKey(20) == 'q') break;
WaitKey ==
    /\ pc = "waitkey"
    /\ \E key \in Keys :
         /\ quit' = (key = "q")
         /\ pc' = IF key = "q" THEN "unwind" ELSE "process"
    /\ UNCHANGED << env, videoOpened, cascadeLoaded, writerOpened, windows, fields,
                    frameSkipCount, disk, error, cerr, exitCode, constructed,
                    sinkEverOpened, counters, cycleLog, caught >>

\* The object leaves scope (break, or the stack unwinding of a throw)
Destroy ==
    /\ pc = "unwind"
    /\ LET d == Destructor([videoOpened |-> videoOpened,
                            writerOpened |-> writerOpened, windows |-> windows])
       IN  /\ videoOpened' = d.videoOpened
           /\ writerOpened' = d.writerOpened
           /\ windows' = d.windows
    /\ pc' = IF error = NoError THEN "return" ELSE "catch"
    /\ UNCHANGED << env, cascadeLoaded, fields, frameSkipCount, disk, error, cerr,
                    exitCode, constructed, sinkEverOpened, counters, cycleLog,
                    caught, quit >>

\* catch (const exception& e) { cerr << e.what() << endl; return -1; }
Catch ==
    /\ pc = "catch"
    /\ caught' = caught + 1
    /\ cerr' = Append(cerr, error)
    /\ exitCode' = -1
    /\ pc' = "exit"
    /\ UNCHANGED << env, videoOpened, cascadeLoaded, writerOpened, windows, fields,
                    frameSkipCount, disk, error, constructed, sinkEverOpened,
                    counters, cycleLog, quit >>

\* return 0;
Return ==
    /\ pc = "return"
    /\ exitCode' = 0
    /\ pc' = "exit"
    /\ UNCHANGED << env, videoOpened, cascadeLoaded, writerOpened, windows, fields,
                    frameSkipCount, disk, error, cerr, constructed, sinkEverOpened,
                    counters, cycleLog, caught, quit >>

Next == Construct \/ ProcessFrame \/ DisplayFrame \/ WaitKey \/ Destroy \/ Catch \/ Return

Spec == Init /\ [][Next]_vars

\* ------------------------------------------------------------ properties
\* 0-based slots for which the last processFrame call wrote an image file
SavedSlots == {calls[k].slot : k \in DOMAIN calls}

Processed == lastCycle = "processed"

\* C1: with speed-up factor f (frameSkipCount = f - 1), after any number of
\* successful processFrame calls exactly one frame in every f has been detected on,
\* annotated and written to the sink (the frames numbered f, 2f, ...), the
\* counter holds the position inside the current group of f, and a dropped
\* frame is left as captured: no box, no text, no image file.
C1_OneInEveryF ==
    (constructed /\ error = NoError) =>
      LET f == frameSkipCount + 1
      IN  /\ f = speedUpFactor
          /\ detections = captures \div f
          /\ annotations = captures \div f
          /\ videoFrames = captures \div f
          /\ frameCounter = captures % f
          /\ (lastCycle = "dropped" =>
                captures % f # 0 /\ calls = <<>> /\ frame = RawFrame)
          /\ (Processed => captures % f = 0)

C1_Witness ==
    /\ constructed /\ speedUpFactor = 3 /\ captures = 3
    /\ Processed /\ detections = 1 /\ videoFrames = 1 /\ frameCounter = 0

\* C2: whenever the detection count of a processed frame differs
\* from the previous processed frame's, every face of the frame is saved
\* again in that cycle.
C2_ResetSavesAll ==
    (Processed /\ Len(faces) # prevCount) =>
        SavedSlots = {i \in 0..(Len(faces) - 1) : TRUE}

\* C3: a slot saved in the previous processed cycle is not saved again when
\* the next processed cycle has the same detection count, and its box and
\* its "Face <i+1> Dist: <d> cm" label are still drawn.
C3_NoResaveSameCount ==
    (Processed /\ Len(faces) = prevCount) =>
        \A i \in 1..Len(faces) :
            prevSaved[i] =>
              /\ (i - 1) \notin SavedSlots
              /\ frame.boxes[i] = faces[i]
              /\ frame.texts[i] = [text |-> labelText(i - 1, faces[i]),
                                   x |-> faces[i].x, y |-> faces[i].y]

C3_Witness ==
    /\ Processed /\ prevCount = 3 /\ Len(faces) = 3 /\ prevSaved[2]
    /\ 1 \notin SavedSlots
    /\ frame.boxes[2] = [x |-> 80, y |-> 20, width |-> 200, height |-> 200]
    /\ frame.texts[2] = [text |-> "Face 2 Dist: 56.00 cm", x |-> 80, y |-> 20]

\* The summary line is the last text drawn on a processed frame
SummaryLine == frame.texts[Len(faces) + 1]

\* C4 as stated: the summary line reads "0 faces found" for no detection,
\* "1 face found" for one and "<N> faces found" for more.
C4_SummaryText ==
    Processed =>
        /\ (Len(faces) = 0 => SummaryLine.text = "0 faces found")
        /\ (Len(faces) = 1 => SummaryLine.text = "1 face found")
        /\ (Len(faces) > 1 =>
              SummaryLine.text = to_string(Len(faces)) \o " faces found")

\* C5: any two calls of getUniqueFilename that read the same second return
\* different paths, every path returned names no existing file when it is
\* returned, and no image written overwrites a file: one written earlier in
\* the run or one present before it.
C5_UniqueFilenames ==
    /\ \A j, k \in DOMAIN calls :
          (j # k /\ calls[j].t = calls[k].t) => calls[j].path # calls[k].path
    /\ \A k \in DOMAIN calls : ~calls[k].repeated
    /\ \A k \in DOMAIN calls : ~calls[k].existed
    /\ initialFs.files \subseteq fs.files /\ initialFs.dirs \subseteq fs.dirs

\* C6 as stated: with an invalid cascade path the constructor fails with
\* the cascade error, no frame is read and the sink is never opened.
C6_CascadeErrorAlways ==
    (pc # "start" /\ ~cascadeOK) =>
        error = CascadeError /\ reads = 0 /\ ~sinkEverOpened

\* C6 amended: with an invalid cascade path the constructor fails before
\* any frame is read and without the sink being opened; the error is the
\* cascade error when the camera opened, and the camera error when it did
\* not (the base constructor opens the camera first).
C6_CascadeFailFast ==
    (pc # "start" /\ ~cascadeOK) =>
        /\ error = (IF cameraOK THEN CascadeError ELSE CameraError)
        /\ ~constructed /\ reads = 0 /\ captures = 0 /\ ~sinkEverOpened
        /\ pc \in {"unwind", "catch", "exit"}

C6_Witness ==
    /\ pc = "exit" /\ ~cascadeOK /\ cameraOK /\ writerOK
    /\ error = CascadeError /\ exitCode = -1 /\ reads = 0 /\ ~sinkEverOpened

\* What holds of the exit status in every state: an error in flight or
\* caught leaves control on the way out; at exit the code is 0 exactly when
\* no error occurred (and then 'q' was pressed), -1 exactly when one did
\* (and then it was caught once).
C7_State ==
    /\ caught <= 1
    /\ (error # NoError => pc \in {"unwind", "catch", "exit"})
    /\ (pc = "exit" =>
          /\ (exitCode = 0 <=> error = NoError)
          /\ (exitCode = -1 <=> error # NoError)
          /\ (exitCode = 0 => quit /\ caught = 0)
          /\ (exitCode = -1 => caught = 1))

\* C7: the process ends with 0 only after 'q' was pressed and no error
\* occurred, with -1 exactly when a fatal error occurred; the error is
\* caught once; once an error is raised control is on the way out and no
\* read, detection, image save or sink write happens any more.
C7_ExitCodes ==
    /\ []C7_State
    /\ [][error # NoError =>
            UNCHANGED << error, reads, captures, detections, annotations,
                         calls, fs, videoFrames >>]_vars

C7_Witness ==
    /\ pc = "exit" /\ error = ReadError /\ exitCode = -1 /\ caught = 1
    /\ captures = 2 /\ reads = 3 /\ videoFrames >= 1

\* C8: once the processor was constructed, the capture source is released
\* and every window destroyed before main returns, on the quit path and on
\* the exception path alike.
C8_Teardown ==
    (constructed /\ pc \in {"return", "catch", "exit"}) =>
        ~videoOpened /\ windows = {} /\ ~writerOpened

C8_Witness ==
    /\ constructed /\ pc = "exit" /\ error = ReadError /\ captures >= 1
    /\ ~videoOpened /\ windows = {}

\* C9: the saved-flag sequence is as long as the detection set after
\* construction and after every processFrame call.
C9_SameLength == Len(facesSaved) = Len(faces)

C9_Witness ==
    /\ Processed /\ prevCount = 3 /\ Len(faces) = 1 /\ Len(facesSaved) = 1

\* C10: after a processed cycle every flag is set, and the cycle wrote
\* max(0, count - previous count) image files.
C10_SavesOnlyGrowth ==
    /\ error = NoError => \A i \in DOMAIN facesSaved : facesSaved[i]
    /\ Processed =>
          Len(calls) = (IF Len(faces) > prevCount THEN Len(faces) - prevCount ELSE 0)

C10_Witness ==
    /\ Processed /\ prevCount = 1 /\ Len(faces) = 3 /\ Len(calls) = 2
    /\ \A i \in DOMAIN facesSaved : facesSaved[i]

====
